---- MODULE Spec2Model ----
(***************************************************************************)
(* Model of paddlenlp/quantization/checkpoint_quantization_utils.py:      *)
(* the 4-bit packing codec, the tensor-parallel slicing of the statistics *)
(* in the three dequantizers, the channel-wise and group-wise quantizers  *)
(* and the group-wise dequantizer.                                         *)
(*                                                                         *)
(* The library is a set of pure functions.  Every specification below     *)
(* keeps the call frame of a caller as its state: pc is the caller's      *)
(* position, arg the arguments it passes and ret what the calls returned. *)
(*                                                                         *)
(* Numbers.  A float is a pair <<n, d>>: the rational n/d in lowest terms *)
(* when d > 0, and an IEEE special when d = 0 (<<1,0>> = +inf,            *)
(* <<-1,0>> = -inf, <<0,0>> = NaN).  Arithmetic is exact: the rounding    *)
(* error of float32/float64 operations is not modelled.  Tensor elements  *)
(* are integer multiples of the unit 1e-8, the epsilon of the statistics  *)
(* functions, so that epsilon is the float <<1,1>>.                       *)
(***************************************************************************)
EXTENDS Integers, Sequences, FiniteSets

VARIABLES pc, arg, ret

vars == <<pc, arg, ret>>

NoValue == "none"

(***************************************************************************)
(* Fixed-width integers and the bit operations of the packing codec.      *)
(***************************************************************************)
\* numpy astype("int8") of an integer: two's complement wrap to 8 bits.
AsInt8(v) == ((v + 128) % 256) - 128

\* numpy astype("uint8") of an integer.
AsUInt8(v) == v % 256

\* x << 4
Shl4(x) == x * 16

\* final >> 4 on a signed integer: arithmetic shift, i.e. floor division.
Sar4(v) == IF v >= 0 THEN v \div 16 ELSE -((-v + 15) \div 16)

\* v & 0x0F on a two's complement integer.
And0F(v) == v % 16

\* hi | lo where the low four bits of hi are clear and lo is in 0..15.
BitOrDisjoint(hi, lo) == hi + lo

merge_int4(x, y) == AsInt8(BitOrDisjoint(Shl4(x), And0F(y)))

split_int8(final) ==
    LET int4_high == Sar4(final)
        int4_low  == And0F(final)
    IN  [high |-> IF int4_high > 8 THEN int4_high - 16 ELSE int4_high,
         low  |-> int4_low]

\* The values of a signed 4-bit integer.
Int4Min == -8
Int4Max == 7
Int4 == Int4Min..Int4Max

(***************************************************************************)
(* SpecPack: a caller merges two nibbles and splits the byte again.       *)
(***************************************************************************)
InitPack ==
    /\ pc = "pack_idle"
    /\ arg = NoValue
    /\ ret = NoValue

MergeInt4(x, y) ==
    /\ pc = "pack_idle"
    /\ pc' = "merged"
    /\ arg' = [x |-> x, y |-> y]
    /\ ret' = [final |-> merge_int4(x, y)]

SplitInt8 ==
    /\ pc = "merged"
    /\ pc' = "split"
    /\ ret' = [final |-> ret.final,
               high  |-> split_int8(ret.final).high,
               low   |-> split_int8(ret.final).low]
    /\ UNCHANGED arg

NextPack ==
    \/ /\ pc = "pack_idle"
       /\ \E x \in Int4, y \in Int4 : MergeInt4(x, y)
    \/ SplitInt8

SpecPack == InitPack /\ [][NextPack]_vars

\* C1: for all x, y in [-8, 7], split_int8(merge_int4(x, y)) returns (x, y):
\* the high output equals x and the low output equals y.
C1_PackRoundTrip ==
    pc = "split" => (ret.high = arg.x /\ ret.low = arg.y)

(***************************************************************************)
(* Tensor-parallel slicing of a statistic.                                 *)
(*                                                                         *)
(* A shape is a sequence of 0, 1 or 2 positive dimensions.  What a        *)
(* dequantizer reads of a statistic is a selection: one index range       *)
(* <<lo, hi>> (lo inclusive, hi exclusive) per axis, or IndexError when   *)
(* the indexing expression raises.                                         *)
(***************************************************************************)
Min2(a, b) == IF a <= b THEN a ELSE b
Max2(a, b) == IF a >= b THEN a ELSE b

\* Python floor division by a positive divisor.
FloorDiv(a, b) == IF a >= 0 THEN a \div b ELSE -((-a + b - 1) \div b)

\* One bound of a[start:stop] on an axis of length n: a negative bound
\* counts from the end, and the result is clamped to 0..n.
SliceBound(i, n) == IF i < 0 THEN Max2(i + n, 0) ELSE Min2(i, n)

\* The index range of a[start:stop] on an axis of length n.
PySlice(start, stop, n) ==
    LET lo == SliceBound(start, n)
        hi == SliceBound(stop, n)
    IN  IF lo < hi THEN <<lo, hi>> ELSE <<0, 0>>

\* Mutant of BlockRange: the stop index is taken as inclusive.
BlockRange_StopInclusive(n, tp_rank, tp_degree) ==
    PySlice(FloorDiv(tp_rank * n, tp_degree),
            FloorDiv((tp_rank + 1) * n, tp_degree) - 1, n)

\* [tp_rank * n // tp_degree : (tp_rank + 1) * n // tp_degree]
BlockRange(n, tp_rank, tp_degree) ==
    PySlice(FloorDiv(tp_rank * n, tp_degree),
            FloorDiv((tp_rank + 1) * n, tp_degree), n)

\* The indexing expression raises IndexError (too many indices, or shape[0]
\* of a 0-dimensional tensor): a selection no indexing returns.
IndexError == <<<<-1, -1>>>>

FullSel(shape) == [i \in 1..Len(shape) |-> <<0, shape[i]>>]

\* The statistic with its first axis cut to block tp_rank: s[a:b].
FirstAxisBlock(shape, tp_rank, tp_degree) ==
    IF Len(shape) = 0 THEN IndexError
    ELSE [FullSel(shape) EXCEPT ![1] = BlockRange(shape[1], tp_rank, tp_degree)]

\* The statistic with its last axis cut to block tp_rank: s[:, a:b].
LastAxisBlock(shape, tp_rank, tp_degree) ==
    IF Len(shape) < 2 THEN IndexError
    ELSE [FullSel(shape) EXCEPT
            ![Len(shape)] = BlockRange(shape[Len(shape)], tp_rank, tp_degree)]

\* len(s.shape) == 0 or x.shape[-1] == s.shape[-1]
RowParallel(shape, x_last) == Len(shape) = 0 \/ x_last = shape[Len(shape)]

\* Mutant of GroupWiseSlice: the row-parallel branch reads the statistic
\* whole, as the channel-wise codecs do.
GroupWiseSlice_NoRowCut(shape, x_last, tp_rank, tp_degree) ==
    IF tp_rank = -1 \/ RowParallel(shape, x_last) THEN FullSel(shape)
    ELSE LastAxisBlock(shape, tp_rank, tp_degree)

\* group_wise_quant_dequant, quant=False: the part of new_scales (and, when
\* asymmetric, of new_mins, cut the same way) that multiplies the inputs.
GroupWiseSlice(shape, x_last, tp_rank, tp_degree) ==
    IF tp_rank = -1 THEN FullSel(shape)
    ELSE IF RowParallel(shape, x_last)
         THEN FirstAxisBlock(shape, tp_rank, tp_degree)
         ELSE LastAxisBlock(shape, tp_rank, tp_degree)

\* Mutant of ChannelSlice: the row-parallel branch cuts the first axis as
\* the group-wise dequantizer does.
ChannelSlice_RowBlock(shape, x_last, tp_rank, tp_degree) ==
    IF RowParallel(shape, x_last)
    THEN (IF Len(shape) = 0 THEN FullSel(shape)
          ELSE FirstAxisBlock(shape, tp_rank, tp_degree))
    ELSE FirstAxisBlock(shape, tp_rank, tp_degree)

\* qdq_weight and asymmetry_qdq_weight, dequant=True: the part of scales
\* (and, when asymmetric, of mins) that multiplies quant_x.
ChannelSlice(shape, x_last, tp_rank, tp_degree) ==
    IF RowParallel(shape, x_last)
    THEN FullSel(shape)
    ELSE FirstAxisBlock(shape, tp_rank, tp_degree)

qdq_weight_slice(shape, x_last, tp_rank, tp_degree) ==
    ChannelSlice(shape, x_last, tp_rank, tp_degree)

asymmetry_qdq_weight_slice(shape, x_last, tp_rank, tp_degree) ==
    ChannelSlice(shape, x_last, tp_rank, tp_degree)

(***************************************************************************)
(* SpecSlice: a caller holds a statistic of some shape and a data tensor  *)
(* with some last dimension, and runs one dequantizer first unsharded     *)
(* (tp_rank = -1) and then for the ranks 0 .. tp_degree-1 in order.       *)
(* ret[1] is the selection of the call with tp_rank = -1 and ret[k+2]     *)
(* the selection of the call with tp_rank = k.                            *)
(***************************************************************************)
MaxDim == 4
MaxDegree == 2

Shapes ==
    {<<>>} \cup {<<n>> : n \in 1..MaxDim}
           \cup {<<m, n>> : m \in 1..MaxDim, n \in 1..MaxDim}

Codecs == {"group_wise_quant_dequant", "qdq_weight", "asymmetry_qdq_weight"}

InitSlice ==
    /\ pc = "slice_idle"
    /\ arg = NoValue
    /\ ret = NoValue

LoadStatistic(codec, shape, x_last, tp_degree) ==
    /\ pc = "slice_idle"
    /\ pc' = "slicing"
    /\ arg' = [codec |-> codec, shape |-> shape, x_last |-> x_last,
               tp_degree |-> tp_degree]
    /\ ret' = <<>>

NextRank == Len(ret) - 1

SliceDone == pc = "slicing" /\ NextRank = arg.tp_degree

GroupWiseDequantSlice ==
    /\ pc = "slicing"
    /\ arg.codec = "group_wise_quant_dequant"
    /\ NextRank < arg.tp_degree
    /\ ret' = Append(ret, GroupWiseSlice(arg.shape, arg.x_last, NextRank,
                                         arg.tp_degree))
    /\ UNCHANGED <<pc, arg>>

QdqWeightDequantSlice ==
    /\ pc = "slicing"
    /\ arg.codec = "qdq_weight"
    /\ NextRank < arg.tp_degree
    /\ ret' = Append(ret, qdq_weight_slice(arg.shape, arg.x_last, NextRank,
                                           arg.tp_degree))
    /\ UNCHANGED <<pc, arg>>

AsymmetryDequantSlice ==
    /\ pc = "slicing"
    /\ arg.codec = "asymmetry_qdq_weight"
    /\ NextRank < arg.tp_degree
    /\ ret' = Append(ret, asymmetry_qdq_weight_slice(arg.shape, arg.x_last,
                                                     NextRank, arg.tp_degree))
    /\ UNCHANGED <<pc, arg>>

NextSlice ==
    \/ /\ pc = "slice_idle"
       /\ \E codec \in Codecs, shape \in Shapes, x_last \in 1..MaxDim,
             tp_degree \in 1..MaxDegree :
               LoadStatistic(codec, shape, x_last, tp_degree)
    \/ GroupWiseDequantSlice
    \/ QdqWeightDequantSlice
    \/ AsymmetryDequantSlice

SpecSlice == InitSlice /\ [][NextSlice]_vars

\* The selection of the call with tp_rank = r, once that call was made.
Called(r) == pc = "slicing" /\ Len(ret) >= r + 2
SelOf(r) == ret[r + 2]

\* C2: with tp_rank = -1 every codec reads the statistic unsliced, for any
\* tp_degree and any shapes of the data and the statistic.
C2_UnshardedIsUnsliced ==
    Called(-1) => SelOf(-1) = FullSel(arg.shape)

\* tp_degree divides every axis of the statistic: the slices are exact.
ExactDivision ==
    \A i \in 1..Len(arg.shape) : arg.shape[i] % arg.tp_degree = 0

IsChannelCodec == arg.codec \in {"qdq_weight", "asymmetry_qdq_weight"}

\* Block r of an axis of length n cut into d equal blocks.
EqualBlock(n, r, d) == <<r * (n \div d), (r + 1) * (n \div d)>>

\* C3 as stated: for the same statistic, data tensor, tp_rank in
\* [0, tp_degree) and tp_degree, the channel-wise codecs select the index
\* range that group_wise_quant_dequant selects.
C3_SameRuleInEveryCodec ==
    \A r \in 0..(MaxDegree - 1) :
        (/\ Called(r)
         /\ IsChannelCodec
         /\ ExactDivision
         /\ GroupWiseSlice(arg.shape, arg.x_last, r, arg.tp_degree) # IndexError)
            => SelOf(r) = GroupWiseSlice(arg.shape, arg.x_last, r, arg.tp_degree)

\* C3 amended: the codecs decide between row-parallel and column-parallel
\* by the same test but slice differently.  group_wise_quant_dequant
\* selects block tp_rank of the first axis when the data's last dimension
\* equals the statistic's, and block tp_rank of the last axis of a 2-D
\* statistic otherwise; qdq_weight and asymmetry_qdq_weight read the
\* statistic unsliced when it is scalar or the last dimensions are equal,
\* and select block tp_rank of its first axis otherwise.  With
\* tp_degree >= 2 the two never select the same range.
C3_RulePerCodec ==
    \A r \in 0..(MaxDegree - 1) :
        (Called(r) /\ ExactDivision) =>
            LET shape == arg.shape
                d     == arg.tp_degree
                n     == Len(shape)
                row   == n = 0 \/ arg.x_last = shape[n]
            IN  /\ (arg.codec = "group_wise_quant_dequant" /\ row /\ n >= 1)
                     => SelOf(r) = [FullSel(shape) EXCEPT
                                      ![1] = EqualBlock(shape[1], r, d)]
                /\ (arg.codec = "group_wise_quant_dequant" /\ ~row /\ n = 2)
                     => SelOf(r) = [FullSel(shape) EXCEPT
                                      ![2] = EqualBlock(shape[2], r, d)]
                /\ (IsChannelCodec /\ row)
                     => SelOf(r) = FullSel(shape)
                /\ (IsChannelCodec /\ ~row)
                     => SelOf(r) = [FullSel(shape) EXCEPT
                                      ![1] = EqualBlock(shape[1], r, d)]
                /\ (IsChannelCodec /\ d >= 2)
                     => SelOf(r) # GroupWiseSlice(shape, arg.x_last, r, d)

\* A channel-wise codec has dequantized rank 1 of 2 of a row-parallel
\* shard: the statistic has the data's last dimension and is read whole.
C3_Witness ==
    /\ Called(1)
    /\ arg.codec = "qdq_weight"
    /\ arg.tp_degree = 2
    /\ arg.shape = <<4>>
    /\ arg.x_last = 4
    /\ SelOf(1) = <<<<0, 4>>>>

\* The statistic is a vector and the codec cuts it per rank.
CutsVector ==
    /\ pc = "slicing"
    /\ Len(arg.shape) = 1
    /\ arg.shape[1] % arg.tp_degree = 0
    /\ \/ arg.codec = "group_wise_quant_dequant" /\ arg.x_last = arg.shape[1]
       \/ IsChannelCodec /\ arg.x_last # arg.shape[1]

RECURSIVE IndicesFrom(_, _)
IndicesFrom(lo, hi) == IF lo >= hi THEN <<>> ELSE <<lo>> \o IndicesFrom(lo + 1, hi)

\* The indices selected by the ranks 0 .. r, in rank order.
RECURSIVE ConcatBlocks(_)
ConcatBlocks(r) ==
    IF r < 0 THEN <<>>
    ELSE ConcatBlocks(r - 1) \o IndicesFrom(SelOf(r)[1][1], SelOf(r)[1][2])

\* C8: for a vector of length L and tp_degree d dividing L the ranges of
\* the ranks 0 .. d-1 are contiguous, disjoint, each of length L/d, and
\* their concatenation in rank order is [0, L).
C8_BlocksPartition ==
    CutsVector =>
        LET L == arg.shape[1]
            d == arg.tp_degree
        IN  /\ \A r \in 0..(d - 1) :
                 Called(r) =>
                    /\ SelOf(r)[1][2] - SelOf(r)[1][1] = L \div d
                    /\ SelOf(r)[1][1] = IF r = 0 THEN 0 ELSE SelOf(r - 1)[1][2]
                    /\ ConcatBlocks(r) = IndicesFrom(0, (r + 1) * (L \div d))
            /\ SliceDone => ConcatBlocks(d - 1) = IndicesFrom(0, L)

\* Every rank of a degree-2 group has cut its block of a vector of 4.
C8_Witness ==
    /\ CutsVector
    /\ SliceDone
    /\ arg.tp_degree = 2
    /\ arg.shape = <<4>>
    /\ ret[2] = <<<<0, 2>>>>
    /\ ret[3] = <<<<2, 4>>>>

(***************************************************************************)
(* Floats: <<n, d>> is n/d in lowest terms when d > 0; <<1,0>> is +inf,   *)
(* <<-1,0>> is -inf and <<0,0>> is NaN.  A zero divisor is +0: the        *)
(* divisors of the code are an absolute maximum, a difference x - x, or   *)
(* an integer.                                                             *)
(***************************************************************************)
Abs(i) == IF i < 0 THEN -i ELSE i
Sgn(i) == IF i > 0 THEN 1 ELSE IF i < 0 THEN -1 ELSE 0

RECURSIVE GCD(_, _)
GCD(a, b) == IF b = 0 THEN a ELSE GCD(b, a % b)

Rat(n, d) ==
    LET g == GCD(Abs(n), Abs(d))
    IN  <<Sgn(d) * (n \div g), Abs(d) \div g>>

FInt(i) == <<i, 1>>
NaN  == <<0, 0>>
Inf(sign) == <<sign, 0>>

IsNaN(a)    == a = NaN
IsFinite(a) == a[2] > 0
IsZero(a)   == a[2] > 0 /\ a[1] = 0

FNeg(a) == <<-a[1], a[2]>>

FAdd(a, b) ==
    IF IsNaN(a) \/ IsNaN(b) THEN NaN
    ELSE IF IsFinite(a) /\ IsFinite(b)
         THEN Rat(a[1] * b[2] + b[1] * a[2], a[2] * b[2])
    ELSE IF IsFinite(b) THEN a
    ELSE IF IsFinite(a) THEN b
    ELSE IF a = b THEN a ELSE NaN

FSub(a, b) == FAdd(a, FNeg(b))

FMul(a, b) ==
    IF IsNaN(a) \/ IsNaN(b) THEN NaN
    ELSE IF IsFinite(a) /\ IsFinite(b) THEN Rat(a[1] * b[1], a[2] * b[2])
    ELSE IF IsZero(a) \/ IsZero(b) THEN NaN
    ELSE Inf(Sgn(a[1]) * Sgn(b[1]))

FDiv(a, b) ==
    IF IsNaN(a) \/ IsNaN(b) THEN NaN
    ELSE IF IsZero(b)
         THEN (IF IsZero(a) THEN NaN ELSE Inf(Sgn(a[1])))
    ELSE IF IsFinite(b)
         THEN (IF IsFinite(a) THEN Rat(a[1] * b[2], a[2] * b[1])
               ELSE Inf(Sgn(a[1]) * Sgn(b[1])))
    ELSE IF IsFinite(a) THEN FInt(0) ELSE NaN

\* a <= b; false when either is NaN.
FLe(a, b) ==
    IF IsNaN(a) \/ IsNaN(b) THEN FALSE
    ELSE IF IsFinite(a) /\ IsFinite(b) THEN a[1] * b[2] <= b[1] * a[2]
    ELSE IF IsFinite(a) THEN b[1] > 0
    ELSE IF IsFinite(b) THEN a[1] < 0
    ELSE a[1] <= b[1]

FAbs(a) == <<Abs(a[1]), a[2]>>

\* np.round: to the nearest integer, halves to the even one.
FRound(a) ==
    IF ~IsFinite(a) THEN a
    ELSE LET f    == FloorDiv(a[1], a[2])
             rem2 == 2 * (a[1] - f * a[2])
         IN  IF rem2 < a[2] THEN FInt(f)
             ELSE IF rem2 > a[2] THEN FInt(f + 1)
             ELSE IF f % 2 = 0 THEN FInt(f) ELSE FInt(f + 1)

\* np.clip(a, lo, hi) with integer bounds: NaN stays NaN.
FClip(a, lo, hi) ==
    IF IsNaN(a) THEN NaN
    ELSE IF ~FLe(FInt(lo), a) THEN FInt(lo)
    ELSE IF ~FLe(a, FInt(hi)) THEN FInt(hi)
    ELSE a

\* np.nan_to_num: NaN becomes 0.  An infinity would become the largest
\* finite float; the model keeps it, and none reaches this call, which
\* follows np.clip.
nan_to_num(a) == IF IsNaN(a) THEN FInt(0) ELSE a

\* astype to an integer type of a float: the integer part, wrapped to the
\* type.  The conversion of NaN is undefined: nan_cast is what this call
\* happens to produce for it.
AsTypeInt8(a, nan_cast) ==
    IF ~IsFinite(a) THEN nan_cast
    ELSE AsInt8(Sgn(a[1]) * (Abs(a[1]) \div a[2]))

AsTypeUInt8(a, nan_cast) ==
    IF ~IsFinite(a) THEN nan_cast
    ELSE AsUInt8(Sgn(a[1]) * (Abs(a[1]) \div a[2]))

\* quant_x.astype(np.int8) and quant_x.astype(np.uint8) of a 2-D tensor.
TensorAsInt8(t, nan_cast) ==
    [r \in 1..Len(t) |-> [c \in 1..Len(t[r]) |-> AsTypeInt8(t[r][c], nan_cast)]]

TensorAsUInt8(t, nan_cast) ==
    [r \in 1..Len(t) |-> [c \in 1..Len(t[r]) |-> AsTypeUInt8(t[r][c], nan_cast)]]

\* What a conversion of NaN may produce: the saturating and the truncating
\* conversions of the platforms give the type's minimum, zero or maximum.
NanCastInt8  == {-128, 0, 127}
NanCastUInt8 == {0, 255}

\* The outcomes of one astype call on t: a choice only when t holds a
\* value whose conversion is undefined.
CastOutcomes(t, outcomes) ==
    IF \E r \in 1..Len(t) : \E c \in 1..Len(t[r]) : ~IsFinite(t[r][c])
    THEN outcomes
    ELSE {0}

(***************************************************************************)
(* Tensors.  A 2-D tensor is a sequence of rows; its elements are         *)
(* integers (float inputs in units of 1e-8, or quantized values) or       *)
(* floats.  A statistic is a record [shape, v]: v lists its elements,     *)
(* one for a 0-dimensional statistic.                                      *)
(***************************************************************************)
NumRows(x) == Len(x)
NumCols(x) == Len(x[1])

SetMax(S) == CHOOSE m \in S : \A y \in S : y <= m
SetMin(S) == CHOOSE m \in S : \A y \in S : m <= y

\* eps = 1e-8 (cal_abs_min_max_channel) and epsilon = 1e-8
\* (cal_abs_max_channel), in units of 1e-8.
Eps == 1

\* np.where(v == 0, eps, v)
ZeroToEps(v) == IF v = 0 THEN Eps ELSE v

\* The elements of inputs that np.max / np.min reduce into element k of the
\* result when every axis except quant_axis is reduced.  quant_axis is
\* compared with the axis numbers 0 and 1 as written: any other value
\* (-1 too) reduces both axes.
ChannelOf(inputs, quant_axis, k) ==
    IF quant_axis = 1 THEN {inputs[r][k] : r \in 1..NumRows(inputs)}
    ELSE IF quant_axis = 0 THEN {inputs[k][c] : c \in 1..NumCols(inputs)}
    ELSE {inputs[r][c] : r \in 1..NumRows(inputs), c \in 1..NumCols(inputs)}

ReducedShape(inputs, quant_axis) ==
    IF quant_axis = 1 THEN <<NumCols(inputs)>>
    ELSE IF quant_axis = 0 THEN <<NumRows(inputs)>>
    ELSE <<>>

NumElems(shape) == IF Len(shape) = 0 THEN 1 ELSE shape[1]

cal_abs_max_channel(inputs, quant_axis) ==
    LET shape == ReducedShape(inputs, quant_axis)
    IN  [shape |-> shape,
         v |-> [k \in 1..NumElems(shape) |->
                  ZeroToEps(SetMax({Abs(e) : e \in ChannelOf(inputs, quant_axis, k)}))]]

\* Returns (abs_max_values, abs_min_values).
cal_abs_min_max_channel(inputs, quant_axis) ==
    LET shape == ReducedShape(inputs, quant_axis)
    IN  [shape |-> shape,
         maxs |-> [k \in 1..NumElems(shape) |->
                     ZeroToEps(SetMax(ChannelOf(inputs, quant_axis, k)))],
         mins |-> [k \in 1..NumElems(shape) |->
                     ZeroToEps(SetMin(ChannelOf(inputs, quant_axis, k)))]]

\* (1 << quant_bit) - 1 and (1 << (quant_bit - 1)) - 1
QMax(quant_bits) == 2 ^ quant_bits - 1
Bnt(quant_bits)  == 2 ^ (quant_bits - 1) - 1

\* Broadcasting a vector of length m along the last axis of a row of
\* length n: the index into the vector for column c.
BIdx(c, m) == IF m = 1 THEN 1 ELSE c

\* The quant_axis default of cal_abs_max_channel and
\* cal_abs_min_max_channel, which the quantizers call without the argument.
DefaultQuantAxis == 1

\* qdq_weight, dequant=False, scales=None, up to the astype of line 333:
\* the clipped float tensor and the scales.  quant_axis is not used.
qdq_weight_quant(x, quant_bit, quant_axis) ==
    LET st  == cal_abs_max_channel(x, DefaultQuantAxis)
        bnt == Bnt(quant_bit)
    IN  [q |-> [r \in 1..NumRows(x) |-> [c \in 1..NumCols(x) |->
                 FClip(FRound(FMul(FDiv(FInt(x[r][c]),
                                        FInt(st.v[BIdx(c, Len(st.v))])),
                                   FInt(bnt))),
                       -bnt - 1, bnt)]],
         scales |-> st.v]

\* asymmetry_qdq_weight, dequant=False, mins=None, up to the astype of
\* line 252.  quant_axis is not used.
asymmetry_qdq_weight_quant(x, quant_bit, quant_axis) ==
    LET st     == cal_abs_min_max_channel(x, DefaultQuantAxis)
        bnt    == QMax(quant_bit)
        scales == [k \in 1..Len(st.maxs) |-> st.maxs[k] - st.mins[k]]
    IN  [q |-> [r \in 1..NumRows(x) |-> [c \in 1..NumCols(x) |->
                 FClip(FRound(FMul(FDiv(FInt(x[r][c] - st.mins[BIdx(c, Len(scales))]),
                                        FInt(scales[BIdx(c, Len(scales))])),
                                   FInt(bnt))),
                       0, bnt)]],
         mins |-> st.mins,
         maxs |-> st.maxs,
         scales |-> scales]

\* The group of row r: np.repeat(s, repeats=group_size, axis=0)[r] = s[g].
GroupOf(r, group_size) == ((r - 1) \div group_size) + 1

\* inputs.reshape([rows // group_size, group_size, cols])[g, :, c]
GroupElems(inputs, group_size, g, c) ==
    {inputs[r][c] : r \in ((g - 1) * group_size + 1)..(g * group_size)}

\* group_wise_quant_dequant, quant=True, symmetry=True, up to the astype of
\* line 82.
group_wise_quant_symmetry(inputs, quant_bits, group_size) ==
    LET bnt    == Bnt(quant_bits)
        scales == [g \in 1..(NumRows(inputs) \div group_size) |->
                    [c \in 1..NumCols(inputs) |->
                      SetMax({Abs(e) : e \in GroupElems(inputs, group_size, g, c)})]]
    IN  [q |-> [r \in 1..NumRows(inputs) |-> [c \in 1..NumCols(inputs) |->
                 FClip(FRound(FMul(FDiv(FInt(inputs[r][c]),
                                        FInt(scales[GroupOf(r, group_size)][c])),
                                   FInt(bnt))),
                       -bnt - 1, bnt)]],
         scales |-> scales]

\* group_wise_quant_dequant, quant=True, symmetry=False, up to the astype of
\* line 94.
group_wise_quant_asymmetry(inputs, quant_bits, group_size) ==
    LET qmax == QMax(quant_bits)
        qmin == 0
        maxs == [g \in 1..(NumRows(inputs) \div group_size) |->
                  [c \in 1..NumCols(inputs) |->
                    SetMax(GroupElems(inputs, group_size, g, c))]]
        mins == [g \in 1..(NumRows(inputs) \div group_size) |->
                  [c \in 1..NumCols(inputs) |->
                    SetMin(GroupElems(inputs, group_size, g, c))]]
    IN  [q |-> [r \in 1..NumRows(inputs) |-> [c \in 1..NumCols(inputs) |->
                 LET g == GroupOf(r, group_size)
                 IN  nan_to_num(
                       FClip(FRound(FMul(FDiv(FInt(inputs[r][c] - mins[g][c]),
                                              FInt(maxs[g][c] - mins[g][c])),
                                         FInt(qmax))),
                             qmin, qmax))]],
         mins |-> mins,
         maxs |-> maxs]

\* Mutant of qdq_weight_dequant: the divisor is the asymmetric codec's
\* (1 << quant_bit) - 1.
qdq_weight_dequant_qmax(quant_x, quant_bit, scales, tp_rank, tp_degree) ==
    [r \in 1..NumRows(quant_x) |-> [c \in 1..NumCols(quant_x) |->
        FMul(FDiv(FInt(quant_x[r][c]), FInt(QMax(quant_bit))),
             FInt(scales[BIdx(c, Len(scales))]))]]

\* qdq_weight, dequant=True, use_pd=False: quant_x / bnt * scales with the
\* scales cut by ChannelSlice and broadcast along the last axis.
\* ValueError when the shapes do not broadcast.
qdq_weight_dequant(quant_x, quant_bit, scales, tp_rank, tp_degree) ==
    LET bnt == Bnt(quant_bit)
        sel == qdq_weight_slice(<<Len(scales)>>, NumCols(quant_x), tp_rank, tp_degree)
        lo  == sel[1][1]
        m   == sel[1][2] - sel[1][1]
        n   == NumCols(quant_x)
    IN  IF m # n /\ m # 1 /\ n # 1 THEN "ValueError"
        ELSE [r \in 1..NumRows(quant_x) |-> [c \in 1..(IF n = 1 THEN m ELSE n) |->
                FMul(FDiv(FInt(quant_x[r][BIdx(c, n)]), FInt(bnt)),
                     FInt(scales[lo + BIdx(c, m)]))]]

(***************************************************************************)
(* SpecQuant: a caller quantizes a 2-D float tensor with one of the       *)
(* quantizers, which compute the statistics themselves.                    *)
(* SpecSym: a caller quantizes with qdq_weight and dequantizes the result *)
(* with the scales the first call returned and tp_rank = -1.              *)
(***************************************************************************)
MaxElems == 4
MaxAbs == 2
MaxQuantBits == 8

Values == (-MaxAbs)..MaxAbs
QuantBits == 1..MaxQuantBits
QuantAxes == {-1, 0, 1}

Dims2D == {rc \in (1..MaxElems) \X (1..MaxElems) : rc[1] * rc[2] <= MaxElems}

Tensors(rows, cols, S) == [1..rows -> [1..cols -> S]]

FloatTensors == UNION {Tensors(rc[1], rc[2], Values) : rc \in Dims2D}

InitQuant ==
    /\ pc = "quant_idle"
    /\ arg = NoValue
    /\ ret = NoValue

QdqWeightQuant(x, quant_bit, quant_axis) ==
    /\ pc = "quant_idle"
    /\ pc' = "quantized"
    /\ arg' = [op |-> "qdq_weight", x |-> x, quant_bit |-> quant_bit,
               quant_axis |-> quant_axis]
    /\ LET res == qdq_weight_quant(x, quant_bit, quant_axis)
       IN  \E nan_cast \in CastOutcomes(res.q, NanCastInt8) :
              ret' = [res EXCEPT !.q = TensorAsInt8(@, nan_cast)]

AsymmetryQdqWeightQuant(x, quant_bit, quant_axis) ==
    /\ pc = "quant_idle"
    /\ pc' = "quantized"
    /\ arg' = [op |-> "asymmetry_qdq_weight", x |-> x, quant_bit |-> quant_bit,
               quant_axis |-> quant_axis]
    /\ LET res == asymmetry_qdq_weight_quant(x, quant_bit, quant_axis)
       IN  \E nan_cast \in CastOutcomes(res.q, NanCastUInt8) :
              ret' = [res EXCEPT !.q = TensorAsUInt8(@, nan_cast)]

GroupWiseQuant(inputs, quant_bits, group_size, symmetry) ==
    /\ pc = "quant_idle"
    /\ NumRows(inputs) % group_size = 0
    /\ pc' = "quantized"
    /\ arg' = [op |-> "group_wise_quant_dequant", x |-> inputs,
               quant_bit |-> quant_bits, group_size |-> group_size,
               symmetry |-> symmetry]
    /\ IF symmetry
       THEN LET res == group_wise_quant_symmetry(inputs, quant_bits, group_size)
            IN  \E nan_cast \in CastOutcomes(res.q, NanCastInt8) :
                   ret' = [res EXCEPT !.q = TensorAsInt8(@, nan_cast)]
       ELSE LET res == group_wise_quant_asymmetry(inputs, quant_bits, group_size)
            IN  \E nan_cast \in CastOutcomes(res.q, NanCastUInt8) :
                   ret' = [res EXCEPT !.q = TensorAsUInt8(@, nan_cast)]

QdqWeightDequant ==
    /\ pc = "quantized"
    /\ arg.op = "qdq_weight"
    /\ pc' = "dequantized"
    /\ ret' = [q |-> ret.q, scales |-> ret.scales,
               deq |-> qdq_weight_dequant(ret.q, arg.quant_bit, ret.scales, -1, 1)]
    /\ UNCHANGED arg

NextQuant ==
    \/ /\ pc = "quant_idle"
       /\ \E x \in FloatTensors, quant_bit \in QuantBits, quant_axis \in QuantAxes :
               QdqWeightQuant(x, quant_bit, quant_axis)
    \/ /\ pc = "quant_idle"
       /\ \E x \in FloatTensors, quant_bit \in QuantBits, quant_axis \in QuantAxes :
               AsymmetryQdqWeightQuant(x, quant_bit, quant_axis)
    \/ /\ pc = "quant_idle"
       /\ \E x \in FloatTensors, quant_bits \in QuantBits,
             group_size \in 1..MaxElems, symmetry \in BOOLEAN :
               GroupWiseQuant(x, quant_bits, group_size, symmetry)

SpecQuant == InitQuant /\ [][NextQuant]_vars

NextSym ==
    \/ /\ pc = "quant_idle"
       /\ \E x \in FloatTensors, quant_bit \in QuantBits :
               QdqWeightQuant(x, quant_bit, -1)
    \/ QdqWeightDequant

SpecSym == InitQuant /\ [][NextSym]_vars

IsChannelQuant == arg.op \in {"qdq_weight", "asymmetry_qdq_weight"}

\* C4: after a channel-wise quantizer computed its statistics, every
\* element of the scale it divides by is nonzero.
C4_NoZeroScale ==
    (pc = "quantized" /\ IsChannelQuant)
        => \A k \in 1..Len(ret.scales) : ret.scales[k] # 0

IsSymmetric ==
    \/ arg.op = "qdq_weight"
    \/ arg.op = "group_wise_quant_dequant" /\ arg.symmetry

NormAxis(a) == IF a < 0 THEN a + 2 ELSE a

\* The elements of channel k of x along axis a.
Channel(x, a, k) ==
    IF NormAxis(a) = 1 THEN {x[r][k] : r \in 1..NumRows(x)}
    ELSE {x[k][c] : c \in 1..NumCols(x)}

NumChannels(x, a) == IF NormAxis(a) = 1 THEN NumCols(x) ELSE NumRows(x)

\* C7: with no statistics supplied, qdq_weight(x, quant_axis=a) returns as
\* scale the absolute maximum of each channel of x along axis a, and
\* asymmetry_qdq_weight(x, quant_axis=a) the minimum and maximum of each
\* channel along axis a (a zero replaced by epsilon).
C7_AxisHonoured ==
    (pc = "quantized" /\ IsChannelQuant) =>
        LET x == arg.x
            a == arg.quant_axis
            n == NumChannels(x, a)
        IN  IF arg.op = "qdq_weight"
            THEN /\ Len(ret.scales) = n
                 /\ \A k \in 1..n :
                      ret.scales[k] =
                        ZeroToEps(SetMax({Abs(e) : e \in Channel(x, a, k)}))
            ELSE /\ Len(ret.mins) = n
                 /\ Len(ret.maxs) = n
                 /\ \A k \in 1..n :
                      /\ ret.mins[k] = ZeroToEps(SetMin(Channel(x, a, k)))
                      /\ ret.maxs[k] = ZeroToEps(SetMax(Channel(x, a, k)))

\* |deq - x| <= scale / bnt for every element, scale being the scale of the
\* element's channel.
WithinScaleOverBnt ==
    \A r \in 1..NumRows(arg.x), c \in 1..NumCols(arg.x) :
        FLe(FAbs(FSub(ret.deq[r][c], FInt(arg.x[r][c]))),
            FDiv(FInt(ret.scales[c]), FInt(Bnt(arg.quant_bit))))

\* C6 as stated: for every x and quant_bits, quantizing with qdq_weight and
\* dequantizing with the returned scales and tp_rank = -1 gives elements
\* within scale/bnt of those of x.
C6_ErrorBound ==
    pc = "dequantized" => WithinScaleOverBnt

\* C6 amended: the bound holds for quant_bits in 2..8; with quant_bits = 1
\* bnt is 0 and the dequantized tensor is NaN.
C6_ErrorBoundFrom2Bits ==
    (pc = "dequantized" /\ arg.quant_bit >= 2) => WithinScaleOverBnt

\* A 4-bit round trip that lost precision: some element came back changed.
C6_Witness ==
    /\ pc = "dequantized"
    /\ arg.quant_bit = 4
    /\ \E r \in 1..NumRows(arg.x), c \in 1..NumCols(arg.x) :
          /\ IsFinite(ret.deq[r][c])
          /\ ret.deq[r][c] # FInt(arg.x[r][c])

(***************************************************************************)
(* Group-wise dequantization.  The statistics mins and maxs are 2-D, of   *)
(* shape (rows // group_size, cols) of the full tensor.                    *)
(***************************************************************************)
\* The operands of an elementwise operation do not broadcast: a tensor no
\* operation returns.
ValueError == << << <<0, -1>> >> >>

\* np.repeat(s, repeats=group_size, axis=0)
Repeat(s, group_size) ==
    [r \in 1..(Len(s) * group_size) |-> s[GroupOf(r, group_size)]]

\* t[rows[1]:rows[2], cols[1]:cols[2]]
Cut(t, sel) ==
    [r \in 1..(sel[1][2] - sel[1][1]) |->
        [c \in 1..(sel[2][2] - sel[2][1]) |-> t[sel[1][1] + r][sel[2][1] + c]]]

Rows(t) == Len(t)
Cols(t) == IF Len(t) = 0 THEN 0 ELSE Len(t[1])

\* numpy broadcasting of two 2-D shapes, axis by axis.
Broadcasts(m, n) == m = n \/ m = 1 \/ n = 1
BDim(m, n) == IF m = 1 THEN n ELSE m

\* group_wise_quant_dequant, quant=False, use_pd=False.
group_wise_dequant(inputs, mins, maxs, quant_bits, group_size, tp_rank, tp_degree, symmetry) ==
    LET qmax == QMax(quant_bits)
        bnt  == Bnt(quant_bits)
        new_mins == Repeat(mins, group_size)
        sel  == GroupWiseSlice(<<Rows(new_mins), Cols(new_mins)>>, Cols(inputs),
                               tp_rank, tp_degree)
        s_mins == Cut(new_mins, sel)
        s_maxs == Cut(Repeat(maxs, group_size), sel)
        R == Rows(inputs)
        C == Cols(inputs)
        m == Rows(s_mins)
        n == Cols(s_mins)
    IN  IF sel = IndexError THEN IndexError
        ELSE IF ~(Broadcasts(R, m) /\ Broadcasts(C, n)) THEN ValueError
        ELSE [r \in 1..BDim(R, m) |-> [c \in 1..BDim(C, n) |->
                LET q  == FInt(inputs[BIdx(r, R)][BIdx(c, C)])
                    mn == s_mins[BIdx(r, m)][BIdx(c, n)]
                    mx == s_maxs[BIdx(r, m)][BIdx(c, n)]
                IN  IF symmetry
                    THEN \* scales = mins; inputs * new_scales / bnt
                         FDiv(FMul(q, FInt(mn)), FInt(bnt))
                    ELSE \* scales = maxs - mins;
                         \* (inputs / qmax * new_scales) + new_mins
                         FAdd(FMul(FDiv(q, FInt(qmax)), FInt(mx - mn)),
                              FInt(mn))]]

(***************************************************************************)
(* SpecDequant: a caller holds a quantized tensor with its statistics,    *)
(* dequantizes it whole (tp_rank = -1), then cuts it into tp_degree equal *)
(* shards along split_axis and dequantizes the shards in rank order with  *)
(* the full statistics.                                                    *)
(***************************************************************************)
MinValues == {0, 1}
MaxValues == {1, 2}

\* Quantized tensors: all elements the least value, all the greatest, or
\* the values counted up from the least one, row by row.
QuantizedTensors(rows, cols, lo, hi) ==
    { [r \in 1..rows |-> [c \in 1..cols |-> lo]],
      [r \in 1..rows |-> [c \in 1..cols |-> hi]],
      [r \in 1..rows |-> [c \in 1..cols |->
            lo + (((r - 1) * cols + (c - 1)) % (hi - lo + 1))]] }

\* Shard tp_rank of tp_degree of q along split_axis (0: rows, 1: columns).
Shard(q, split_axis, tp_rank, tp_degree) ==
    IF split_axis = 0
    THEN Cut(q, <<EqualBlock(Rows(q), tp_rank, tp_degree), <<0, Cols(q)>>>>)
    ELSE Cut(q, <<<<0, Rows(q)>>, EqualBlock(Cols(q), tp_rank, tp_degree)>>)

InitDequant ==
    /\ pc = "dequant_idle"
    /\ arg = NoValue
    /\ ret = NoValue

LoadQuantized(dims, group_size, quant_bits, symmetry, split_axis, tp_degree) ==
    /\ pc = "dequant_idle"
    /\ dims[1] % group_size = 0
    /\ dims[IF split_axis = 0 THEN 1 ELSE 2] % tp_degree = 0
    /\ \E q \in QuantizedTensors(dims[1], dims[2],
                                 IF symmetry THEN -Bnt(quant_bits) - 1 ELSE 0,
                                 IF symmetry THEN Bnt(quant_bits) ELSE QMax(quant_bits)),
          mins \in Tensors(dims[1] \div group_size, dims[2], MinValues),
          maxs \in Tensors(dims[1] \div group_size, dims[2], MaxValues) :
            arg' = [q |-> q, mins |-> mins, maxs |-> maxs,
                    quant_bits |-> quant_bits, group_size |-> group_size,
                    symmetry |-> symmetry, split_axis |-> split_axis,
                    tp_degree |-> tp_degree]
    /\ pc' = "loaded"
    /\ ret' = [full |-> <<>>, shards |-> <<>>]

GroupWiseDequantFull ==
    /\ pc = "loaded"
    /\ pc' = "sharding"
    /\ ret' = [ret EXCEPT !.full =
                 group_wise_dequant(arg.q, arg.mins, arg.maxs, arg.quant_bits,
                                    arg.group_size, -1, arg.tp_degree,
                                    arg.symmetry)]
    /\ UNCHANGED arg

GroupWiseDequantShard ==
    /\ pc = "sharding"
    /\ Len(ret.shards) < arg.tp_degree
    /\ LET tp_rank == Len(ret.shards)
       IN  ret' = [ret EXCEPT !.shards = Append(@,
                     group_wise_dequant(
                        Shard(arg.q, arg.split_axis, tp_rank, arg.tp_degree),
                        arg.mins, arg.maxs, arg.quant_bits, arg.group_size,
                        tp_rank, arg.tp_degree, arg.symmetry))]
    /\ UNCHANGED <<pc, arg>>

NextDequant ==
    \/ /\ pc = "dequant_idle"
       /\ \E dims \in Dims2D, group_size \in 1..MaxElems,
             quant_bits \in QuantBits, symmetry \in BOOLEAN,
             split_axis \in {0, 1}, tp_degree \in 1..MaxDegree :
               LoadQuantized(dims, group_size, quant_bits, symmetry,
                             split_axis, tp_degree)
    \/ GroupWiseDequantFull
    \/ GroupWiseDequantShard

SpecDequant == InitDequant /\ [][NextDequant]_vars

\* C9: symmetric group-wise dequantization reads the scale from maxs: the
\* result is inputs * repeat(maxs, group_size) / bnt (stated where bnt > 0).
C9_SymmetricScaleIsMaxs ==
    (pc = "sharding" /\ arg.symmetry /\ arg.quant_bits >= 2) =>
        ret.full = [r \in 1..Rows(arg.q) |-> [c \in 1..Cols(arg.q) |->
                      FDiv(FMul(FInt(arg.q[r][c]),
                                FInt(Repeat(arg.maxs, arg.group_size)[r][c])),
                           FInt(Bnt(arg.quant_bits)))]]

\* The shards' results put together in rank order along the split axis.
RECURSIVE ConcatShards(_, _)
ConcatShards(shards, split_axis) ==
    IF Len(shards) = 1 THEN shards[1]
    ELSE LET head == ConcatShards(SubSeq(shards, 1, Len(shards) - 1), split_axis)
             last == shards[Len(shards)]
         IN  IF split_axis = 0 THEN head \o last
             ELSE IF Rows(head) # Rows(last) THEN ValueError
             ELSE [r \in 1..Rows(head) |-> head[r] \o last[r]]

AllShardsDone == pc = "sharding" /\ Len(ret.shards) = arg.tp_degree

\* C10: with tp_degree >= 2 dividing the split axis, dequantizing the
\* shards with the full statistics and concatenating the results in rank
\* order gives exactly the result of dequantizing the whole tensor with
\* tp_rank = -1, for symmetry = True and symmetry = False.
C10_ShardedEqualsUnsharded ==
    (AllShardsDone /\ arg.tp_degree >= 2)
        => ConcatShards(ret.shards, arg.split_axis) = ret.full

\* Both shards of a 2 x 2 tensor cut by rows inside one group of two rows
\* are dequantized, and the statistics differ from column to column.
C10_Witness ==
    /\ AllShardsDone
    /\ arg.tp_degree = 2
    /\ arg.split_axis = 0
    /\ arg.group_size = 2
    /\ Rows(arg.q) = 2
    /\ Cols(arg.q) = 2
    /\ ~arg.symmetry
    /\ arg.mins[1][1] # arg.mins[1][2]
    /\ Rows(ret.shards[2]) = 1
    /\ ret.shards[1] # ret.shards[2]

====
